---- MODULE Spec2Model ----
(***************************************************************************)
(* Live block migration (block-migration.c): the sender's engine           *)
(* (set_params, setup, iterate, complete, cancel, the read completion      *)
(* callback), the block layer and transport it drives, the guest that      *)
(* writes the devices, and the receiver (block_load).                      *)
(*                                                                         *)
(* Every handler is one action.  A handler is written as an operator from  *)
(* the sender's state (a record, "world") to the SET of outcomes it can    *)
(* end in: the nondeterminism inside a handler is the transport's rate     *)
(* limit answer at each flush step, the order (and result) in which        *)
(* bdrv_drain_all completes the reads in flight, the uninitialised tail of *)
(* a short chunk's buffer, and the throughput estimate of the convergence  *)
(* test.                                                                   *)
(*                                                                         *)
(* Scaling: a chunk is BDRV_SECTORS_PER_DIRTY_CHUNK = 2 sectors here (2048 *)
(* in the block layer's header); a sector's contents are one integer (0 =  *)
(* all bytes zero, JUNK = uninitialised non-zero bytes).  Header words are *)
(* small, so the 64-bit width never matters and is not modelled.  The      *)
(* sender never tests the transport for errors, and the transport and the  *)
(* receiver's writes inside the device do not fail here.  The statistics   *)
(* counters total_blocks/zero_blocks/bulk_blocks are only printed and are  *)
(* left out.                                                               *)
(***************************************************************************)
EXTENDS Integers, Sequences, FiniteSets, TLC

\* ------------------------------------------------------------ constants
BDRV_SECTOR_BITS == 9
BDRV_SECTOR_SIZE == 2 ^ BDRV_SECTOR_BITS
BDRV_SECTORS_PER_DIRTY_CHUNK == 2
BLOCK_SIZE == BDRV_SECTORS_PER_DIRTY_CHUNK * BDRV_SECTOR_SIZE

BLK_MIG_FLAG_DEVICE_BLOCK == 1
BLK_MIG_FLAG_EOS == 2
BLK_MIG_FLAG_PROGRESS == 4
BLK_MIG_FLAG_ZERO_BLOCK == 8
MAX_IS_ALLOCATED_SEARCH == 65536
EIO == 5
EINVAL == 22
\* what a hook "returns" when an assertion ends the process (128 + SIGABRT)
ABORTED == 134

\* --------------------------------------------------------------- bounds
MaxWrites == 1        \* guest writes in one run
MaxIter == 2          \* iterate calls in one run
MaxReadErrors == 1    \* reads that fail in one run
MaxFrames == 2        \* encoder calls in one run of the codec specification

\* ---------------------------------------------------------- environment
JUNK == 0 - 1
Devices == 1 .. 3
ReadOnlyDevs == {3}
\* total sectors of each device: device 1 has a short last chunk
DevSectors == <<3, 2, 2>>
\* contents at the start, per sector: device 1 is all zero
InitContent == << <<0, 0, 0>>, <<0, 1>>, <<1, 1>> >>
\* sectors allocated in the top image at the start (shared-base probe); an
\* unallocated sector reads as zero from the base image the receiver shares
InitAlloc == << {2}, {1}, {0, 1} >>
\* device names on the wire
device_name == << <<118, 100, 97>>, <<104, 100>>, <<99>> >>
\* rate-limit windows the transport may report, in bytes: one chunk, and a
\* window that is no multiple of a chunk (it admits two reads)
Windows == {BLOCK_SIZE, BLOCK_SIZE + BDRV_SECTOR_SIZE}
\* the sectors the guest writes, <<device, sector>>: the second sector of a
\* full chunk, the only sector of a short last chunk, the first of a chunk
WriteTargets == {<<1, 1>>, <<1, 2>>, <<2, 0>>}

\* the buffers handed to the encoder in the codec specification: all zero,
\* zero in the first sector only, zero nowhere
CodecBuffers == {<<0, 0>>, <<0, 1>>, <<1, 1>>}

Min(a, b) == IF a < b THEN a ELSE b
SeqToSet(s) == {s[i] : i \in 1 .. Len(s)}

\* ------------------------------------------------------------- bit ops
RECURSIVE BitOr(_, _)
BitOr(a, b) ==
    IF a = 0 THEN b
    ELSE IF b = 0 THEN a
    ELSE (IF a % 2 = 1 \/ b % 2 = 1 THEN 1 ELSE 0) + 2 * BitOr(a \div 2, b \div 2)

RECURSIVE BitAnd(_, _)
BitAnd(a, b) ==
    IF a = 0 \/ b = 0 THEN 0
    ELSE (IF a % 2 = 1 /\ b % 2 = 1 THEN 1 ELSE 0) + 2 * BitAnd(a \div 2, b \div 2)

Shl(a, n) == a * (2 ^ n)
Shr(a, n) == a \div (2 ^ n)
\* x & ~(m - 1) for a power of two m
AlignDown(x, m) == x - BitAnd(x, m - 1)

VARIABLES
    \* block_mig_state
    blk_enable, shared_base, sparse_enable, bmds_list, blk_list,
    submitted, read_done, transferred, total_sector_sum, prev_progress,
    bulk_completed, total_time, reads,
    \* the BlkMigDevState of each device (meaningful while it is in bmds_list)
    bmds,
    \* block layer: reads in flight, contents, allocation, dirty bitmap, in-use marker
    inflight, content, alloc, dirty, tracking, in_use,
    \* transport: everything written to the stream so far
    stream,
    \* history: encoder calls, PendingReads freed unsent, read counter, failed reads,
    \* whether the last iterate left its loop on "no dirty chunk"
    sent, freed_unsent, nseq, errs, nodirty_break,
    \* migration driver: position, last hook's return value, counters
    pc, ret, iters, writes,
    \* receiver: position in the stream, devices, block_load's locals, history
    rpos, rcv, r_buf, r_zeroed, r_bs_prev, r_total, r_state, r_writes

svars == <<blk_enable, shared_base, sparse_enable, bmds_list, blk_list,
           submitted, read_done, transferred, total_sector_sum, prev_progress,
           bulk_completed, total_time, reads, bmds, inflight, content, alloc,
           dirty, tracking, in_use, stream, sent, freed_unsent, nseq, errs,
           nodirty_break>>
dvars == <<pc, ret, iters, writes>>
rvars == <<rpos, rcv, r_buf, r_zeroed, r_bs_prev, r_total, r_state, r_writes>>
vars == <<svars, dvars, rvars>>

\* the sender's state as one record
World ==
    [blk_enable |-> blk_enable, shared_base |-> shared_base,
     sparse_enable |-> sparse_enable, bmds_list |-> bmds_list,
     blk_list |-> blk_list, submitted |-> submitted, read_done |-> read_done,
     transferred |-> transferred, total_sector_sum |-> total_sector_sum,
     prev_progress |-> prev_progress, bulk_completed |-> bulk_completed,
     total_time |-> total_time, reads |-> reads, bmds |-> bmds,
     inflight |-> inflight, content |-> content, alloc |-> alloc,
     dirty |-> dirty, tracking |-> tracking, in_use |-> in_use,
     stream |-> stream, sent |-> sent, freed_unsent |-> freed_unsent,
     nseq |-> nseq, errs |-> errs, nodirty_break |-> nodirty_break]

SetWorld(w) ==
    /\ blk_enable' = w.blk_enable
    /\ shared_base' = w.shared_base
    /\ sparse_enable' = w.sparse_enable
    /\ bmds_list' = w.bmds_list
    /\ blk_list' = w.blk_list
    /\ submitted' = w.submitted
    /\ read_done' = w.read_done
    /\ transferred' = w.transferred
    /\ total_sector_sum' = w.total_sector_sum
    /\ prev_progress' = w.prev_progress
    /\ bulk_completed' = w.bulk_completed
    /\ total_time' = w.total_time
    /\ reads' = w.reads
    /\ bmds' = w.bmds
    /\ inflight' = w.inflight
    /\ content' = w.content
    /\ alloc' = w.alloc
    /\ dirty' = w.dirty
    /\ tracking' = w.tracking
    /\ in_use' = w.in_use
    /\ stream' = w.stream
    /\ sent' = w.sent
    /\ freed_unsent' = w.freed_unsent
    /\ nseq' = w.nseq
    /\ errs' = w.errs
    /\ nodirty_break' = w.nodirty_break

\* a handler's outcome: the state it leaves and the value it returns
Out(w, r) == [w |-> w, ret |-> r]

\* --------------------------------------------------------- block layer
Chunk(sector) == sector \div BDRV_SECTORS_PER_DIRTY_CHUNK
ChunksOf(sector, n) == Chunk(sector) .. Chunk(sector + n - 1)
SectorsOf(d) == 0 .. (DevSectors[d] - 1)

bdrv_getlength(d) == DevSectors[d] * BDRV_SECTOR_SIZE
bdrv_is_read_only(d) == d \in ReadOnlyDevs

\* the length of the run of sectors from `sector` on that have the allocation
\* status of `sector`, at most `left` long and ending at the device's end
RECURSIVE AllocRun(_, _, _, _, _)
AllocRun(w, d, sector, status, left) ==
    IF left = 0 \/ sector >= DevSectors[d] \/ (sector \in w.alloc[d]) # status
    THEN 0
    ELSE 1 + AllocRun(w, d, sector + 1, status, left - 1)

bdrv_is_allocated(w, d, sector, nb_sectors) ==
    [allocated |-> sector \in w.alloc[d],
     nr_sectors |-> AllocRun(w, d, sector, sector \in w.alloc[d], nb_sectors)]

bdrv_get_dirty(w, d, sector) == w.tracking[d] /\ Chunk(sector) \in w.dirty[d]
bdrv_reset_dirty(w, d, sector, nr) ==
    [w EXCEPT !.dirty[d] = @ \ ChunksOf(sector, nr)]
bdrv_get_dirty_count(w, d) == Cardinality(w.dirty[d])
bdrv_set_dirty_tracking(w, d, enable) ==
    [w EXCEPT !.tracking[d] = (enable = 1), !.dirty[d] = {}]
bdrv_set_in_use(w, d, v) == [w EXCEPT !.in_use[d] = v]

\* the sectors [sector, sector + nr) of device d as they are now
ReadSectors(w, d, sector, nr) == [i \in 1 .. nr |-> w.content[d][sector + i - 1]]

\* a freshly allocated BLOCK_SIZE buffer after a read of nr sectors into it:
\* the sectors behind the read keep what the allocator left there (tail)
FillBuf(data, tail) ==
    [i \in 1 .. BDRV_SECTORS_PER_DIRTY_CHUNK |->
        IF i <= Len(data) THEN data[i] ELSE tail]
TailChoices(nr) == IF nr < BDRV_SECTORS_PER_DIRTY_CHUNK THEN {0, JUNK} ELSE {0}

\* results a read may complete with
RetChoices(w) == IF w.errs < MaxReadErrors THEN {0, 0 - EIO} ELSE {0}

\* ------------------------------------------------------------ transport
qemu_put_be64(w, x) == [w EXCEPT !.stream = Append(@, [n |-> 8, v |-> x])]
qemu_put_byte(w, x) == [w EXCEPT !.stream = Append(@, [n |-> 1, v |-> x])]
\* `units` written one after the other, each `size` bytes long
qemu_put_buffer(w, units, size) ==
    [w EXCEPT !.stream = @ \o [i \in 1 .. Len(units) |-> [n |-> size, v |-> units[i]]]]

\* ------------------------------------------------- is_zero_blk, blk_send
is_zero_blk(buf) == IF \A i \in 1 .. Len(buf) : buf[i] = 0 THEN 1 ELSE 0

BlockHeader(sector, zero_blk) ==
    BitOr(BitOr(Shl(sector, BDRV_SECTOR_BITS), BLK_MIG_FLAG_DEVICE_BLOCK),
          zero_blk * BLK_MIG_FLAG_ZERO_BLOCK)

SentEntry(w, blk, zero_blk, elided) ==
    [dev |-> blk.bmds, sector |-> blk.sector, nr_sectors |-> blk.nr_sectors,
     seq |-> blk.seq, kind |-> blk.kind, buf |-> blk.buf, ret |-> blk.ret,
     zero |-> zero_blk, elided |-> elided, pos |-> Len(w.stream) + 1]

blk_send(w, blk) ==
    LET zero_blk == is_zero_blk(blk.buf)
        d == blk.bmds
    IN  IF zero_blk = 1 /\ w.bmds[d].sparse_enable # 0 /\ w.bmds[d].bulk_completed = 0
        THEN [w EXCEPT !.sent = Append(@, SentEntry(w, blk, zero_blk, TRUE))]
        ELSE LET w0 == [w EXCEPT !.sent = Append(@, SentEntry(w, blk, zero_blk, FALSE))]
                 w1 == qemu_put_be64(w0, BlockHeader(blk.sector, zero_blk))
                 w2 == qemu_put_byte(w1, Len(device_name[d]))
                 w3 == qemu_put_buffer(w2, device_name[d], 1)
             IN  IF zero_blk = 0
                 THEN qemu_put_buffer(w3, blk.buf, BDRV_SECTOR_SIZE)
                 ELSE w3

\* ------------------------------------------------------------- queries
RECURSIVE SumOver(_, _, _)
SumOver(w, list, field) ==
    IF list = <<>> THEN 0
    ELSE w.bmds[Head(list)][field] + SumOver(w, Tail(list), field)

blk_mig_active(w) == w.bmds_list # <<>>
blk_mig_bytes_transferred(w) ==
    Shl(SumOver(w, w.bmds_list, "completed_sectors"), BDRV_SECTOR_BITS)
blk_mig_bytes_total(w) ==
    Shl(SumOver(w, w.bmds_list, "total_sectors"), BDRV_SECTOR_BITS)
blk_mig_bytes_remaining(w) == blk_mig_bytes_total(w) - blk_mig_bytes_transferred(w)

\* ------------------------------------------------------ in-flight bitmap
bmds_aio_inflight(w, d, sector) ==
    IF Shl(sector, BDRV_SECTOR_BITS) < bdrv_getlength(d)
    THEN Chunk(sector) \in w.bmds[d].aio_bitmap
    ELSE FALSE

bmds_set_aio_inflight(w, d, sector_num, nb_sectors, set) ==
    [w EXCEPT !.bmds[d].aio_bitmap =
        IF set = 1 THEN @ \cup ChunksOf(sector_num, nb_sectors)
        ELSE @ \ ChunksOf(sector_num, nb_sectors)]

\* ------------------------------------------------------ read completion
blk_mig_read_cb(w, blk, r) ==
    LET w1 == [w EXCEPT !.reads = @ + 1,
                        !.total_time = 1,
                        !.blk_list = Append(@, [blk EXCEPT !.ret = r]),
                        !.inflight = @ \ {blk},
                        !.errs = IF r < 0 THEN @ + 1 ELSE @]
        w2 == bmds_set_aio_inflight(w1, blk.bmds, blk.sector, blk.nr_sectors, 0)
    IN  [w2 EXCEPT !.submitted = @ - 1, !.read_done = @ + 1]

\* bdrv_drain_all: every read in flight completes, in any order
RECURSIVE bdrv_drain_all(_)
bdrv_drain_all(w) ==
    IF w.inflight = {} THEN {w}
    ELSE UNION {bdrv_drain_all(blk_mig_read_cb(w, blk, r)) :
                    <<blk, r>> \in w.inflight \X RetChoices(w)}

\* bdrv_aio_readv: the read is in flight; its buffer holds what the device
\* holds now (a guest write that lands before the read is served changes it)
bdrv_aio_readv(w, d, sector, nr, tail, kind) ==
    [w EXCEPT !.inflight = @ \cup
                {[bmds |-> d, sector |-> sector, nr_sectors |-> nr,
                  buf |-> FillBuf(ReadSectors(w, d, sector, nr), tail),
                  ret |-> 0, seq |-> w.nseq, kind |-> kind]},
              !.nseq = @ + 1]

\* ------------------------------------------------------------ bulk phase
\* the shared-base loop: skip the unallocated runs from cur_sector on
RECURSIVE SkipUnallocated(_, _, _)
SkipUnallocated(w, d, cur_sector) ==
    LET a == bdrv_is_allocated(w, d, cur_sector, MAX_IS_ALLOCATED_SEARCH)
    IN  IF cur_sector < w.bmds[d].total_sectors /\ ~a.allocated
        THEN SkipUnallocated(w, d, cur_sector + a.nr_sectors)
        ELSE cur_sector

\* a bulk step that counts the chunk it submits as completed, in full
mig_save_device_bulk_counting_ahead(w, d) ==
    LET total_sectors == w.bmds[d].total_sectors
        cur0 == IF w.bmds[d].shared_base # 0
                THEN SkipUnallocated(w, d, w.bmds[d].cur_sector)
                ELSE w.bmds[d].cur_sector
    IN  IF cur0 >= total_sectors
        THEN {Out([w EXCEPT !.bmds[d].cur_sector = total_sectors,
                            !.bmds[d].completed_sectors = total_sectors], 1)}
        ELSE
          LET cur_sector == AlignDown(cur0, BDRV_SECTORS_PER_DIRTY_CHUNK)
              nr_sectors ==
                  IF total_sectors - cur_sector < BDRV_SECTORS_PER_DIRTY_CHUNK
                  THEN total_sectors - cur_sector
                  ELSE BDRV_SECTORS_PER_DIRTY_CHUNK
              w1 == [w EXCEPT !.bmds[d].completed_sectors =
                                  cur_sector + BDRV_SECTORS_PER_DIRTY_CHUNK]
          IN  { LET w2 == bdrv_aio_readv(w1, d, cur_sector, nr_sectors, tail, "bulk")
                    w3 == [w2 EXCEPT !.submitted = @ + 1]
                    w4 == bdrv_reset_dirty(w3, d, cur_sector, nr_sectors)
                    w5 == [w4 EXCEPT !.bmds[d].cur_sector = cur_sector + nr_sectors]
                IN  Out(w5, IF w5.bmds[d].cur_sector >= total_sectors THEN 1 ELSE 0)
                : tail \in TailChoices(nr_sectors) }

mig_save_device_bulk(w, d) ==
    LET total_sectors == w.bmds[d].total_sectors
        cur0 == IF w.bmds[d].shared_base # 0
                THEN SkipUnallocated(w, d, w.bmds[d].cur_sector)
                ELSE w.bmds[d].cur_sector
    IN  IF cur0 >= total_sectors
        THEN {Out([w EXCEPT !.bmds[d].cur_sector = total_sectors,
                            !.bmds[d].completed_sectors = total_sectors], 1)}
        ELSE
          LET cur_sector == AlignDown(cur0, BDRV_SECTORS_PER_DIRTY_CHUNK)
              nr_sectors ==
                  IF total_sectors - cur_sector < BDRV_SECTORS_PER_DIRTY_CHUNK
                  THEN total_sectors - cur_sector
                  ELSE BDRV_SECTORS_PER_DIRTY_CHUNK
              w1 == [w EXCEPT !.bmds[d].completed_sectors = cur0]
          IN  { LET w2 == bdrv_aio_readv(w1, d, cur_sector, nr_sectors, tail, "bulk")
                    w3 == [w2 EXCEPT !.submitted = @ + 1]
                    w4 == bdrv_reset_dirty(w3, d, cur_sector, nr_sectors)
                    w5 == [w4 EXCEPT !.bmds[d].cur_sector = cur_sector + nr_sectors]
                IN  Out(w5, IF w5.bmds[d].cur_sector >= total_sectors THEN 1 ELSE 0)
                : tail \in TailChoices(nr_sectors) }

RECURSIVE set_dirty_tracking_from(_, _, _)
set_dirty_tracking_from(w, list, enable) ==
    IF list = <<>> THEN w
    ELSE set_dirty_tracking_from(bdrv_set_dirty_tracking(w, Head(list), enable),
                                 Tail(list), enable)
set_dirty_tracking(w, enable) == set_dirty_tracking_from(w, w.bmds_list, enable)

NoBmds ==
    [bulk_completed |-> 0, shared_base |-> 0, sparse_enable |-> 0,
     cur_sector |-> 0, cur_dirty |-> 0, completed_sectors |-> 0,
     total_sectors |-> 0, aio_bitmap |-> {}]

init_blk_migration_it(w, bs) ==
    IF ~bdrv_is_read_only(bs)
    THEN LET sectors == Shr(bdrv_getlength(bs), BDRV_SECTOR_BITS)
         IN  IF sectors <= 0 THEN w
             ELSE LET w1 == [w EXCEPT !.bmds[bs] =
                                [NoBmds EXCEPT !.total_sectors = sectors,
                                               !.shared_base = w.shared_base,
                                               !.sparse_enable = w.sparse_enable]]
                      w2 == bdrv_set_in_use(w1, bs, 1)
                  IN  [w2 EXCEPT !.total_sector_sum = @ + sectors,
                                 !.bmds_list = Append(@, bs)]
    ELSE w

\* bdrv_iterate: the devices in their fixed order
RECURSIVE bdrv_iterate(_, _)
bdrv_iterate(w, bs) ==
    IF bs \notin Devices THEN w
    ELSE bdrv_iterate(init_blk_migration_it(w, bs), bs + 1)

init_blk_migration(w) ==
    bdrv_iterate([w EXCEPT !.submitted = 0, !.read_done = 0, !.transferred = 0,
                           !.total_sector_sum = 0, !.prev_progress = 0 - 1,
                           !.bulk_completed = 0, !.total_time = 0, !.reads = 0],
                 1)

\* the last device of `list` whose bulk_completed is 0, or 0
RECURSIVE LastIncomplete(_, _)
LastIncomplete(w, list) ==
    IF list = <<>> THEN 0
    ELSE LET later == LastIncomplete(w, Tail(list))
         IN  IF later # 0 THEN later
             ELSE IF w.bmds[Head(list)].bulk_completed = 0 THEN Head(list)
             ELSE 0

\* the first device of `list` whose bulk_completed is 0, or 0
RECURSIVE FirstIncomplete(_, _)
FirstIncomplete(w, list) ==
    IF list = <<>> THEN 0
    ELSE IF w.bmds[Head(list)].bulk_completed = 0 THEN Head(list)
    ELSE FirstIncomplete(w, Tail(list))

\* a progress sum that counts the current device only
UpToCurrent(list, d) == <<d>>

\* the devices of `list` up to and including d (all of them when d = 0)
RECURSIVE UpTo(_, _)
UpTo(list, d) ==
    IF list = <<>> THEN <<>>
    ELSE IF Head(list) = d THEN <<d>>
    ELSE <<Head(list)>> \o UpTo(Tail(list), d)

\* the progress frame at the end of blk_mig_save_bulked_block
ReportProgress(w, completed_sector_sum) ==
    LET progress == IF w.total_sector_sum # 0
                    THEN (completed_sector_sum * 100) \div w.total_sector_sum
                    ELSE 100
    IN  IF progress # w.prev_progress
        THEN qemu_put_be64([w EXCEPT !.prev_progress = progress],
                           BitOr(Shl(progress, BDRV_SECTOR_BITS), BLK_MIG_FLAG_PROGRESS))
        ELSE w

blk_mig_save_bulked_block(w) ==
    LET d == FirstIncomplete(w, w.bmds_list)
    IN  IF d = 0
        THEN {Out(ReportProgress(w, SumOver(w, w.bmds_list, "completed_sectors")), 0)}
        ELSE { LET w1 == IF o.ret = 1
                         THEN [o.w EXCEPT !.bmds[d].bulk_completed = 1]
                         ELSE o.w
               IN  Out(ReportProgress(w1, SumOver(w1, UpTo(w1.bmds_list, d),
                                                  "completed_sectors")), 1)
               : o \in mig_save_device_bulk(w, d) }

RECURSIVE reset_dirty_cursor_from(_, _)
reset_dirty_cursor_from(w, list) ==
    IF list = <<>> THEN w
    ELSE reset_dirty_cursor_from([w EXCEPT !.bmds[Head(list)].cur_dirty = 0], Tail(list))
blk_mig_reset_dirty_cursor(w) == reset_dirty_cursor_from(w, w.bmds_list)

\* ----------------------------------------------------------- dirty phase
\* the body of the loop once the chunk at `sector` is found dirty
SaveDirtyChunk(w, d, sector, is_async) ==
    LET total_sectors == w.bmds[d].total_sectors
        nr_sectors == IF total_sectors - sector < BDRV_SECTORS_PER_DIRTY_CHUNK
                      THEN total_sectors - sector
                      ELSE BDRV_SECTORS_PER_DIRTY_CHUNK
        Result(x) == Out(x, IF x.bmds[d].cur_dirty >= x.bmds[d].total_sectors
                            THEN 1 ELSE 0)
    IN  IF is_async = 1
        THEN { LET w1 == bdrv_aio_readv(w, d, sector, nr_sectors, tail, "dirty")
                   w2 == [w1 EXCEPT !.submitted = @ + 1]
                   w3 == bmds_set_aio_inflight(w2, d, sector, nr_sectors, 1)
               IN  Result(bdrv_reset_dirty(w3, d, sector, nr_sectors))
               : tail \in TailChoices(nr_sectors) }
        ELSE UNION {
               IF r < 0
               THEN {Out([w EXCEPT !.errs = @ + 1, !.nseq = @ + 1], r)}
               ELSE { LET blk == [bmds |-> d, sector |-> sector,
                                  nr_sectors |-> nr_sectors,
                                  buf |-> FillBuf(ReadSectors(w, d, sector, nr_sectors), tail),
                                  ret |-> r, seq |-> w.nseq, kind |-> "dirty"]
                          w1 == blk_send([w EXCEPT !.nseq = @ + 1], blk)
                      IN  Result(bdrv_reset_dirty(w1, d, sector, nr_sectors))
                      : tail \in TailChoices(nr_sectors) }
               : r \in RetChoices(w) }

RECURSIVE DirtyScan(_, _, _, _)
DirtyScan(w, d, sector, is_async) ==
    IF sector < w.bmds[d].total_sectors
    THEN UNION {
           IF bdrv_get_dirty(w1, d, sector)
           THEN SaveDirtyChunk(w1, d, sector, is_async)
           ELSE DirtyScan([w1 EXCEPT !.bmds[d].cur_dirty =
                                        sector + BDRV_SECTORS_PER_DIRTY_CHUNK],
                          d, sector + BDRV_SECTORS_PER_DIRTY_CHUNK, is_async)
           : w1 \in IF bmds_aio_inflight(w, d, sector)
                    THEN bdrv_drain_all(w) ELSE {w} }
    ELSE {Out(w, IF w.bmds[d].cur_dirty >= w.bmds[d].total_sectors THEN 1 ELSE 0)}

mig_save_device_dirty(w, d, is_async) == DirtyScan(w, d, w.bmds[d].cur_dirty, is_async)

RECURSIVE save_dirty_block_from(_, _, _, _)
save_dirty_block_from(w, list, r, is_async) ==
    IF list = <<>> THEN {Out(w, r)}
    ELSE UNION { IF o.ret <= 0 THEN {o}
                 ELSE save_dirty_block_from(o.w, Tail(list), o.ret, is_async)
                 : o \in mig_save_device_dirty(w, Head(list), is_async) }
\* a dirty pass that looks at the first device only
blk_mig_save_dirty_block_first_only(w, is_async) ==
    IF w.bmds_list = <<>> THEN {Out(w, 1)}
    ELSE mig_save_device_dirty(w, Head(w.bmds_list), is_async)

blk_mig_save_dirty_block(w, is_async) ==
    save_dirty_block_from(w, w.bmds_list, 1, is_async)

\* a flush that does not look at the result of the read
RECURSIVE flush_blks_unchecked(_)
flush_blks_unchecked(w) ==
    IF w.blk_list = <<>> THEN {Out(w, 0)}
    ELSE {Out(w, 0)}
         \cup flush_blks_unchecked([blk_send(w, Head(w.blk_list)) EXCEPT
                                       !.blk_list = Tail(@),
                                       !.read_done = @ - 1,
                                       !.transferred = @ + 1])

\* a flush that takes the PendingReads from the tail of the queue
RECURSIVE flush_blks_from_tail(_)
flush_blks_from_tail(w) ==
    IF w.blk_list = <<>> THEN {Out(w, 0)}
    ELSE LET blk == w.blk_list[Len(w.blk_list)]
         IN  {Out(w, 0)}
             \cup
             (IF blk.ret < 0 THEN {Out(w, blk.ret)}
              ELSE flush_blks_from_tail([blk_send(w, blk) EXCEPT
                                  !.blk_list = SubSeq(@, 1, Len(@) - 1),
                                  !.read_done = @ - 1,
                                  !.transferred = @ + 1]))

\* ------------------------------------------------------------- send path
RECURSIVE flush_blks(_)
flush_blks(w) ==
    IF w.blk_list = <<>> THEN {Out(w, 0)}
    ELSE LET blk == Head(w.blk_list)
         IN  {Out(w, 0)}                     \* qemu_file_rate_limit(f) answers true
             \cup
             (IF blk.ret < 0 THEN {Out(w, blk.ret)}
              ELSE flush_blks([blk_send(w, blk) EXCEPT
                                  !.blk_list = Tail(@),
                                  !.read_done = @ - 1,
                                  !.transferred = @ + 1]))

\* ------------------------------------------------------- convergence test
RECURSIVE dirty_count_from(_, _)
dirty_count_from(w, list) ==
    IF list = <<>> THEN 0
    ELSE bdrv_get_dirty_count(w, Head(list)) + dirty_count_from(w, Tail(list))
get_remaining_dirty(w) == dirty_count_from(w, w.bmds_list) * BLOCK_SIZE

\* assert(total_time != 0) in compute_read_bwidth
compute_read_bwidth_ok(w) == w.total_time # 0

\* the values is_stage2_completed may return; ABORTED when the assertion fails.
\* Whether remaining_dirty / bwidth <= migrate_max_downtime() is the driver's
\* and the clock's business: either answer.
is_stage2_completed(w) ==
    IF w.bulk_completed = 1
    THEN IF get_remaining_dirty(w) = 0 THEN {1}
         ELSE IF ~compute_read_bwidth_ok(w) THEN {ABORTED}
         ELSE {0, 1}
    ELSE {0}

\* ---------------------------------------------------------------- cleanup
RECURSIVE release_devices(_, _)
release_devices(w, list) ==
    IF list = <<>> THEN w
    ELSE release_devices([bdrv_set_in_use(w, Head(list), 0) EXCEPT
                             !.bmds[Head(list)] = NoBmds], Tail(list))

\* a cleanup that does not wait for the reads in flight
blk_mig_cleanup_no_drain(w) ==
    { LET w2 == set_dirty_tracking(w, 0)
          w3 == [release_devices(w2, w2.bmds_list) EXCEPT !.bmds_list = <<>>]
      IN  [w3 EXCEPT !.freed_unsent = @ \cup {b.seq : b \in SeqToSet(w3.blk_list)},
                     !.blk_list = <<>>] }

blk_mig_cleanup(w) ==
    { LET w2 == set_dirty_tracking(w1, 0)
          w3 == [release_devices(w2, w2.bmds_list) EXCEPT !.bmds_list = <<>>]
      IN  [w3 EXCEPT !.freed_unsent = @ \cup {b.seq : b \in SeqToSet(w3.blk_list)},
                     !.blk_list = <<>>]
      : w1 \in bdrv_drain_all(w) }

\* cleanup, then return r
CleanupReturn(w, r) == {Out(x, r) : x \in blk_mig_cleanup(w)}

\* ------------------------------------------------------------ the hooks
EosWord == BLK_MIG_FLAG_EOS
ProgressWord(percent) == BitOr(Shl(percent, BDRV_SECTOR_BITS), BLK_MIG_FLAG_PROGRESS)

block_save_setup(w) ==
    LET w1 == init_blk_migration(w)
        w2 == set_dirty_tracking(w1, 1)
    IN  UNION { IF o.ret # 0 THEN CleanupReturn(o.w, o.ret)
                ELSE {Out(qemu_put_be64(blk_mig_reset_dirty_cursor(o.w), EosWord), 0)}
                : o \in flush_blks(w2) }

\* the submission loop of block_save_iterate; r is the local ret
RECURSIVE IterateLoop(_, _, _)
IterateLoop(w, r, rate_limit) ==
    IF (w.submitted + w.read_done) * BLOCK_SIZE < rate_limit
    THEN IF w.bulk_completed = 0
         THEN UNION { IterateLoop(IF o.ret = 0
                                  THEN [o.w EXCEPT !.bulk_completed = 1]
                                  ELSE o.w, r, rate_limit)
                      : o \in blk_mig_save_bulked_block(w) }
         ELSE UNION { IF o.ret # 0
                      THEN {Out([o.w EXCEPT !.nodirty_break = (o.ret > 0)], o.ret)}
                      ELSE IterateLoop(o.w, o.ret, rate_limit)
                      : o \in blk_mig_save_dirty_block(w, 1) }
    ELSE {Out(w, r)}

block_save_iterate(w, rate_limit) ==
    UNION { IF o.ret # 0 THEN CleanupReturn(o.w, o.ret)
            ELSE UNION {
                   IF l.ret # 0 THEN CleanupReturn(l.w, l.ret)
                   ELSE UNION {
                          IF f.ret # 0 THEN CleanupReturn(f.w, f.ret)
                          ELSE LET w1 == qemu_put_be64(f.w, EosWord)
                               IN  {Out(w1, v) : v \in is_stage2_completed(w1)}
                          : f \in flush_blks(l.w) }
                   : l \in IterateLoop(blk_mig_reset_dirty_cursor(o.w), o.ret, rate_limit) }
            : o \in flush_blks([w EXCEPT !.nodirty_break = FALSE]) }

\* do { ret = blk_mig_save_dirty_block(f, 0); } while (ret == 0);
RECURSIVE CompleteLoop(_)
CompleteLoop(w) ==
    UNION { IF o.ret = 0 THEN CompleteLoop(o.w) ELSE {o}
            : o \in blk_mig_save_dirty_block(w, 0) }

block_save_complete(w) ==
    UNION { IF o.ret # 0 THEN CleanupReturn(o.w, o.ret)
            ELSE UNION {
                   { IF l.ret # 0 THEN Out(c, l.ret)
                     ELSE Out(qemu_put_be64(qemu_put_be64(c, ProgressWord(100)), EosWord), 0)
                     : c \in blk_mig_cleanup(l.w) }
                   : l \in CompleteLoop(blk_mig_reset_dirty_cursor(o.w)) }
            : o \in flush_blks(w) }

block_migration_cancel(w) == blk_mig_cleanup(w)

\* the parameters stored as given, the capability taken from blk alone
block_set_params_blk_only(w, blk, shared, sparse) ==
    [w EXCEPT !.blk_enable = blk,
              !.shared_base = shared,
              !.sparse_enable = sparse]

block_set_params(w, blk, shared, sparse) ==
    [w EXCEPT !.blk_enable = BitOr(BitOr(blk, shared), sparse),
              !.shared_base = shared,
              !.sparse_enable = sparse]

block_is_active(w) == w.blk_enable = 1

\* --------------------------------------------------------------- receiver
\* the units of the stream from `pos` on that make up `len` bytes
RECURSIVE qemu_get_buffer(_, _, _)
qemu_get_buffer(st, pos, len) ==
    IF len <= 0 \/ pos > Len(st) THEN [v |-> <<>>, pos |-> pos]
    ELSE LET rest == qemu_get_buffer(st, pos + 1, len - st[pos].n)
         IN  [v |-> <<st[pos].v>> \o rest.v, pos |-> rest.pos]

RECURSIVE FindName(_, _)
FindName(name, d) ==
    IF d \notin Devices THEN 0
    ELSE IF device_name[d] = name THEN d
    ELSE FindName(name, d + 1)
bdrv_find(name) == FindName(name, 1)

LoadFlags(word) == BitAnd(word, BDRV_SECTOR_SIZE - 1)
LoadAddr(word) == Shr(word, BDRV_SECTOR_BITS)

\* a receiver that writes the whole buffer whatever the device length
LoadNrSectorsWhole(total_sectors, addr) == BDRV_SECTORS_PER_DIRTY_CHUNK

LoadNrSectors(total_sectors, addr) ==
    IF total_sectors - addr < BDRV_SECTORS_PER_DIRTY_CHUNK
    THEN total_sectors - addr
    ELSE BDRV_SECTORS_PER_DIRTY_CHUNK

ZeroBuf == [i \in 1 .. BDRV_SECTORS_PER_DIRTY_CHUNK |-> 0]
JunkBuf == [i \in 1 .. BDRV_SECTORS_PER_DIRTY_CHUNK |-> JUNK]

\* a receiver that never clears its scratch buffer
LoadZeroBufStale(buf, buf_is_zeroed) == buf

\* the scratch buffer after a ZERO_BLOCK frame
LoadZeroBuf(buf, buf_is_zeroed) == IF ~buf_is_zeroed THEN ZeroBuf ELSE buf

\* bdrv_write of the first nr sectors of buf at addr: the device after it, and
\* the result
bdrv_write(dev, total, addr, buf, nr) ==
    IF nr < 0 \/ addr < 0 \/ addr + nr > total \/ nr > Len(buf)
    THEN [dev |-> dev, ret |-> 0 - EIO]
    ELSE [dev |-> [s \in DOMAIN dev |->
                      IF s >= addr /\ s < addr + nr THEN buf[s - addr + 1] ELSE dev[s]],
          ret |-> 0]

\* block_load's state as one record: the position in the stream, the
\* devices, the locals (buf, buf_is_zeroed, bs_prev, total_sectors), the
\* hook's fate, the writes made so far
Receiver ==
    [pos |-> rpos, dev |-> rcv, buf |-> r_buf, buf_is_zeroed |-> r_zeroed,
     bs_prev |-> r_bs_prev, total_sectors |-> r_total, state |-> r_state,
     writes |-> r_writes, returned |-> FALSE]

\* return from block_load: the locals are gone
LoadReturn(r, state) ==
    [r EXCEPT !.state = state, !.returned = TRUE, !.buf = JunkBuf,
              !.buf_is_zeroed = FALSE, !.bs_prev = 0, !.total_sectors = 0]

\* one pass of block_load's do-while loop: one frame of the stream st
LoadFrame(r, st) ==
    LET word == st[r.pos].v
        flags == LoadFlags(word)
        addr == LoadAddr(word)
        eos == BitAnd(flags, BLK_MIG_FLAG_EOS) # 0
    IN  IF BitAnd(flags, BLK_MIG_FLAG_DEVICE_BLOCK) # 0
        THEN LET len == st[r.pos + 1].v
                 name == qemu_get_buffer(st, r.pos + 2, len)
                 bs == bdrv_find(name.v)
                 total_sectors == IF bs # r.bs_prev
                                  THEN Shr(bdrv_getlength(bs), BDRV_SECTOR_BITS)
                                  ELSE r.total_sectors
             IN  IF bs = 0 \/ total_sectors <= 0
                 THEN LoadReturn([r EXCEPT !.pos = name.pos], "failed")
                 ELSE LET nr_sectors == LoadNrSectors(total_sectors, addr)
                          zero == BitAnd(flags, BLK_MIG_FLAG_ZERO_BLOCK) # 0
                          data == qemu_get_buffer(st, name.pos, BLOCK_SIZE)
                          buf == IF zero THEN LoadZeroBuf(r.buf, r.buf_is_zeroed)
                                 ELSE data.v
                          wr == bdrv_write(r.dev[bs], DevSectors[bs], addr, buf, nr_sectors)
                          r1 == [r EXCEPT
                                   !.pos = IF zero THEN name.pos ELSE data.pos,
                                   !.dev[bs] = wr.dev,
                                   !.writes = Append(@,
                                       [dev |-> bs, sector |-> addr,
                                        nr_sectors |-> nr_sectors, flags |-> flags,
                                        buf |-> buf, ret |-> wr.ret]),
                                   !.buf = buf,
                                   !.buf_is_zeroed = zero,
                                   !.bs_prev = bs,
                                   !.total_sectors = total_sectors]
                      IN  IF wr.ret < 0 THEN LoadReturn(r1, "failed")
                          ELSE IF eos THEN LoadReturn(r1, "running")
                          ELSE r1
        ELSE LET r1 == [r EXCEPT !.pos = @ + 1]
             IN  IF BitAnd(flags, BLK_MIG_FLAG_PROGRESS) # 0
                 THEN IF eos THEN LoadReturn(r1, "running") ELSE r1
                 ELSE IF ~eos THEN LoadReturn(r1, "failed")
                 ELSE LoadReturn(r1, "running")

\* block_load reads frames until it returns, or waits for more of the stream
RECURSIVE LoadLoop(_, _)
LoadLoop(r, st) ==
    IF r.pos > Len(st) THEN r
    ELSE LET r1 == LoadFrame(r, st)
         IN  IF r1.returned THEN r1 ELSE LoadLoop(r1, st)

\* one call of block_load
block_load(r, st) == LoadLoop([r EXCEPT !.returned = FALSE], st)

\* the destination enters block_load again, its locals fresh, for each
\* section of the stream, until the hook fails or the stream has been read
RECURSIVE LoadSections(_, _)
LoadSections(r, st) ==
    IF r.state # "running" \/ r.pos > Len(st) THEN r
    ELSE LoadSections(block_load(r, st), st)

\* The receiver only reads the stream and nothing reads the receiver, so its
\* steps commute with the sender's: it is scheduled after the sender, and only
\* for a session that ran to its complete hook (the destination of a failed
\* or cancelled migration is thrown away).  "codec" is the position of the
\* codec specification, where the frames are read as they arrive.
ReceiverRuns == {"completed", "codec"}

\* the destination loads what has arrived
Load ==
    /\ r_state = "running"
    /\ pc \in ReceiverRuns
    /\ rpos <= Len(stream)
    /\ \E r \in {LoadSections(Receiver, stream)} :
           /\ rpos' = r.pos
           /\ rcv' = r.dev
           /\ r_buf' = r.buf
           /\ r_zeroed' = r.buf_is_zeroed
           /\ r_bs_prev' = r.bs_prev
           /\ r_total' = r.total_sectors
           /\ r_state' = r.state
           /\ r_writes' = r.writes
    /\ UNCHANGED <<svars, dvars>>

\* ------------------------------------------------------------------ Init
\* the state after construction, the driver at position p
InitAt(p) ==
    /\ blk_enable = 0 /\ shared_base = 0 /\ sparse_enable = 0
    /\ bmds_list = <<>> /\ blk_list = <<>>
    /\ submitted = 0 /\ read_done = 0 /\ transferred = 0
    /\ total_sector_sum = 0 /\ prev_progress = 0 /\ bulk_completed = 0
    /\ total_time = 0 /\ reads = 0
    /\ bmds = [d \in Devices |-> NoBmds]
    /\ inflight = {}
    /\ content = [d \in Devices |-> [s \in SectorsOf(d) |-> InitContent[d][s + 1]]]
    /\ alloc = [d \in Devices |-> InitAlloc[d]]
    /\ dirty = [d \in Devices |-> {}]
    /\ tracking = [d \in Devices |-> FALSE]
    /\ in_use = [d \in Devices |-> 0]
    /\ stream = <<>>
    /\ sent = <<>> /\ freed_unsent = {} /\ nseq = 1 /\ errs = 0
    /\ nodirty_break = FALSE
    /\ pc = p /\ ret = 0 /\ iters = 0 /\ writes = 0
    /\ rpos = 1
    /\ rcv = [d \in Devices |-> [s \in SectorsOf(d) |-> 0]]
    /\ r_buf = JunkBuf /\ r_zeroed = FALSE /\ r_bs_prev = 0 /\ r_total = 0
    /\ r_state = "running" /\ r_writes = <<>>

Init == InitAt("init")

\* --------------------------------------------------------------- actions
\* the driver hands the migration parameters over
SetParams ==
    /\ pc = "init"
    /\ \E blk \in {0, 1}, shared \in {0, 1}, sparse \in {0, 1} :
          SetWorld(block_set_params(World, blk, shared, sparse))
    /\ pc' = "params"
    /\ UNCHANGED <<ret, iters, writes, rvars>>

\* where the driver goes after a hook of the iteration stage returned r
AfterHook(r) ==
    IF r = ABORTED THEN "aborted"
    ELSE IF r < 0 THEN "failed"
    ELSE IF r = 1 THEN "converged"
    ELSE "iterate"

Setup ==
    /\ pc = "params"
    /\ block_is_active(World)
    /\ \E o \in block_save_setup(World) :
          /\ SetWorld(o.w)
          /\ ret' = o.ret
          /\ pc' = IF o.ret = 0 THEN "iterate" ELSE "failed"
    /\ UNCHANGED <<iters, writes, rvars>>

Iterate ==
    /\ pc = "iterate"
    /\ iters < MaxIter
    /\ \E rate_limit \in Windows :
       \E o \in block_save_iterate(World, rate_limit) :
          /\ SetWorld(o.w)
          /\ ret' = o.ret
          /\ pc' = AfterHook(o.ret)
    /\ iters' = iters + 1
    /\ UNCHANGED <<writes, rvars>>

\* the driver stops the guest and waits for the reads in flight (vm_stop)
\* before it calls complete: assert(block_mig_state.submitted == 0)
Complete ==
    /\ pc = "converged"
    /\ submitted = 0
    /\ \E o \in block_save_complete(World) :
          /\ SetWorld(o.w)
          /\ ret' = o.ret
    /\ pc' = "completed"
    /\ UNCHANGED <<iters, writes, rvars>>

Cancel ==
    /\ pc \in {"iterate", "converged"}
    /\ \E w \in block_migration_cancel(World) : SetWorld(w)
    /\ pc' = "cancelled"
    /\ UNCHANGED <<ret, iters, writes, rvars>>

\* the block layer completes one read in flight
ReadCb ==
    /\ inflight # {}
    /\ \E blk \in inflight, r \in RetChoices(World) :
          SetWorld(blk_mig_read_cb(World, blk, r))
    /\ UNCHANGED <<dvars, rvars>>

\* the guest writes one sector while the migration iterates: a value no
\* sector held before (the k-th write stores k + 1).  The write lands before
\* or after each read in flight that covers the sector.
GuestWrite ==
    /\ pc = "iterate"
    /\ writes < MaxWrites
    /\ \E t \in WriteTargets :
       \E seen \in SUBSET {b \in inflight : b.bmds = t[1] /\ t[2] >= b.sector
                                            /\ t[2] < b.sector + b.nr_sectors} :
          LET d == t[1]
              s == t[2]
              v == writes + 2
          IN  /\ content' = [content EXCEPT ![d][s] = v]
              /\ alloc' = [alloc EXCEPT ![d] = @ \cup {s}]
              /\ dirty' = [dirty EXCEPT ![d] =
                              IF tracking[d] THEN @ \cup {Chunk(s)} ELSE @]
              /\ inflight' = (inflight \ seen) \cup
                             {[b EXCEPT !.buf[s - b.sector + 1] = v] : b \in seen}
    /\ writes' = writes + 1
    /\ UNCHANGED <<blk_enable, shared_base, sparse_enable, bmds_list, blk_list,
                   submitted, read_done, transferred, total_sector_sum,
                   prev_progress, bulk_completed, total_time, reads, bmds,
                   tracking, in_use, stream, sent, freed_unsent, nseq, errs,
                   nodirty_break>>
    /\ UNCHANGED <<pc, ret, iters, rvars>>

Next ==
    \/ SetParams
    \/ Setup
    \/ Iterate
    \/ Complete
    \/ Cancel
    \/ ReadCb
    \/ GuestWrite
    \/ Load

Spec == Init /\ [][Next]_vars

\* ------------------------------------------------- codec specification
\* The encoder and the decoder on their own: blk_send is handed any buffer
\* for any chunk of any device, in either phase and with sparse on or off,
\* sections end with EOS, and block_load reads what has arrived.
InitCodec == InitAt("codec")

ChunkStarts(d) == {s \in SectorsOf(d) : s % BDRV_SECTORS_PER_DIRTY_CHUNK = 0}

EncodeFrame ==
    /\ pc = "codec"
    /\ Len(sent) < MaxFrames
    /\ \E d \in Devices, B \in CodecBuffers, sparse \in {0, 1}, bulk_done \in {0, 1} :
       \E sector \in ChunkStarts(d) :
          LET w0 == [World EXCEPT !.bmds[d].sparse_enable = sparse,
                                  !.bmds[d].bulk_completed = bulk_done]
              blk == [bmds |-> d, sector |-> sector,
                      nr_sectors |-> Min(BDRV_SECTORS_PER_DIRTY_CHUNK,
                                         DevSectors[d] - sector),
                      buf |-> B, ret |-> 0, seq |-> nseq,
                      kind |-> IF bulk_done = 0 THEN "bulk" ELSE "dirty"]
              w1 == blk_send(w0, blk)
          IN  SetWorld([w1 EXCEPT !.bmds = bmds, !.nseq = nseq + 1])
    /\ UNCHANGED <<dvars, rvars>>

\* the sender ends a section after a frame
EndSection ==
    /\ pc = "codec"
    /\ stream # <<>>
    /\ stream[Len(stream)] # [n |-> 8, v |-> EosWord]
    /\ SetWorld(qemu_put_be64(World, EosWord))
    /\ UNCHANGED <<dvars, rvars>>

NextCodec ==
    \/ EncodeFrame
    \/ EndSection
    \/ Load

SpecCodec == InitCodec /\ [][NextCodec]_vars

\* ------------------------------------------------------- claim helpers
Writable == {d \in Devices : ~bdrv_is_read_only(d) /\ DevSectors[d] > 0}
NoReadError == errs = 0
\* the receiver has read all that was sent, or has given up
ReceiverDone == rpos > Len(stream) \/ r_state # "running"
\* the encoder calls that put a frame on the stream
Transmitted == {i \in 1 .. Len(sent) : ~sent[i].elided}
SameChunk(a, b) == a.dev = b.dev /\ Chunk(a.sector) = Chunk(b.sector)
\* the sectors of device d that the buffer of encoder call e covers
Covered(e) == e.sector .. (e.sector + e.nr_sectors - 1)

\* C1: convergence.  Once complete has returned in a run without read
\* errors and the receiver has read the stream, every registered device holds
\* on the receiver what it holds on the sender.
C1_Convergence ==
    (pc = "completed" /\ NoReadError /\ ReceiverDone)
        => \A d \in Writable : rcv[d] = content[d]

\* C2: when complete has run without a read error, the last two words of the
\* stream are PROGRESS(100) and EOS, and it returned 0.
C2_CompleteReportsEnd ==
    (pc = "completed" /\ NoReadError)
        => /\ ret = 0
           /\ Len(stream) >= 2
           /\ stream[Len(stream) - 1] = [n |-> 8, v |-> ProgressWord(100)]
           /\ stream[Len(stream)] = [n |-> 8, v |-> EosWord]

\* C3: after an iterate call that left its loop because the dirty step found
\* no dirty chunk (no read error), the devices are still registered, no
\* PendingRead was thrown away, the stream ends with EOS and the call
\* returned what the convergence test said (0 or 1, 1 only with the bulk
\* phase finished).
C3_NoDirtyBreakKeepsSession ==
    (nodirty_break /\ NoReadError /\ pc \in {"iterate", "converged"})
        => /\ bmds_list # <<>>
           /\ freed_unsent = {}
           /\ stream[Len(stream)] = [n |-> 8, v |-> EosWord]
           /\ ret \in {0, 1}

\* C4: no lost update.  The frames of one chunk are transmitted in the order
\* in which their reads were submitted (the frame of an older read never
\* follows the frame of a newer one), and when complete has returned without
\* a read error and every read that was made has reached the encoder, the
\* last frame transmitted for a chunk carries what the sender holds.
C4_NoLostUpdate ==
    /\ \A i, j \in Transmitted :
          (i < j /\ SameChunk(sent[i], sent[j])) => sent[i].seq < sent[j].seq
    /\ (pc = "completed" /\ NoReadError /\ freed_unsent = {})
          => \A i \in Transmitted :
                (\A j \in Transmitted : SameChunk(sent[i], sent[j]) => j <= i)
                   => \A s \in Covered(sent[i]) :
                         sent[i].buf[s - sent[i].sector + 1] = content[sent[i].dev][s]

\* C5: in-flight exclusion.  No chunk has two reads in flight.
C5_InFlightExclusion ==
    \A a, b \in inflight :
        (a.bmds = b.bmds /\ Chunk(a.sector) = Chunk(b.sector)) => a = b

\* C6: in a session that ended through complete without a read error, no
\* PendingRead that entered the PendingQueue was destroyed without having
\* been passed to the encoder.
C6_NothingFreedUnsent ==
    (pc = "completed" /\ NoReadError) => freed_unsent = {}

\* C7: counter invariants.  In every state the PendingQueue is read_done
\* long and read_done and submitted are not negative, and no step makes
\* transferred smaller.
C7_CounterInvariants ==
    /\ [](Len(blk_list) = read_done /\ read_done >= 0 /\ submitted >= 0)
    /\ [][transferred' >= transferred]_vars

\* C8: sparse elision.  With sparse enabled, every bulk-phase read of a device
\* that is all zero on the sender is elided: no frame is put on the stream.
C8_SparseElision ==
    \A i \in 1 .. Len(sent) :
        (/\ sparse_enable = 1
         /\ sent[i].kind = "bulk"
         /\ \A s \in SectorsOf(sent[i].dev) : content[sent[i].dev][s] = 0)
            => sent[i].elided

\* devices whose last chunk is short, the sector it starts at, its length
ShortDevs == {d \in Devices : DevSectors[d] % BDRV_SECTORS_PER_DIRTY_CHUNK # 0}
TailSector(d) == AlignDown(DevSectors[d], BDRV_SECTORS_PER_DIRTY_CHUNK)
TailLen(d) == DevSectors[d] % BDRV_SECTORS_PER_DIRTY_CHUNK
IsTail(d, sector) == d \in ShortDevs /\ sector = TailSector(d)

\* the payload bytes on the stream from position p on
RECURSIVE PayloadRun(_, _)
PayloadRun(st, p) ==
    IF p > Len(st) \/ st[p].n # BDRV_SECTOR_SIZE THEN 0
    ELSE st[p].n + PayloadRun(st, p + 1)

\* the payload bytes of the frame that encoder call i put on the stream
PayloadBytes(i) ==
    PayloadRun(stream, sent[i].pos + 2 + stream[sent[i].pos + 1].v)

\* every read of a short last chunk, in flight, queued or sent, is
\* total_sectors mod SECTORS_PER_CHUNK sectors long
TailReadsShort ==
    /\ \A b \in inflight \cup SeqToSet(blk_list) :
          IsTail(b.bmds, b.sector) => b.nr_sectors = TailLen(b.bmds)
    /\ \A i \in 1 .. Len(sent) :
          IsTail(sent[i].dev, sent[i].sector) => sent[i].nr_sectors = TailLen(sent[i].dev)

\* the receiver writes total_sectors mod SECTORS_PER_CHUNK sectors of the
\* frame of a short last chunk, and stays inside the device
TailWritesShort ==
    \A k \in 1 .. Len(r_writes) :
        IsTail(r_writes[k].dev, r_writes[k].sector)
            => /\ r_writes[k].nr_sectors = TailLen(r_writes[k].dev)
               /\ r_writes[k].sector + r_writes[k].nr_sectors <= DevSectors[r_writes[k].dev]
               /\ r_writes[k].ret = 0

\* C9 as stated: short-tail handling.  Every read of a short last chunk is
\* total_sectors mod SECTORS_PER_CHUNK sectors long, every frame of such a
\* chunk carries CHUNK_BYTES of payload, and the receiver writes
\* total_sectors mod SECTORS_PER_CHUNK sectors of it, never past the end.
C9_ShortTailAsStated ==
    /\ TailReadsShort
    /\ \A i \in Transmitted :
          IsTail(sent[i].dev, sent[i].sector) => PayloadBytes(i) = BLOCK_SIZE
    /\ TailWritesShort

\* C9 amended: short-tail handling.  Every read of a short last chunk is
\* total_sectors mod SECTORS_PER_CHUNK sectors long; its frame carries
\* CHUNK_BYTES of payload unless the whole buffer tested zero, and then it
\* has the ZERO_BLOCK flag and no payload; the receiver writes
\* total_sectors mod SECTORS_PER_CHUNK sectors of it, never past the end.
C9_ShortTail ==
    /\ TailReadsShort
    /\ \A i \in Transmitted :
          IsTail(sent[i].dev, sent[i].sector)
             => /\ PayloadBytes(i) = IF sent[i].zero = 1 THEN 0 ELSE BLOCK_SIZE
                /\ BitAnd(stream[sent[i].pos].v, BLK_MIG_FLAG_ZERO_BLOCK) # 0
                      <=> sent[i].zero = 1
    /\ TailWritesShort

\* a short last chunk was read by the bulk step and, after a guest write, by
\* the dirty step, one of the frames went out with payload and the other as
\* a ZERO_BLOCK frame, and the receiver has written both
C9_Witness ==
    /\ \E i, j \in Transmitted :
          /\ IsTail(sent[i].dev, sent[i].sector) /\ sent[i].kind = "bulk"
          /\ sent[i].zero = 1
          /\ SameChunk(sent[i], sent[j]) /\ sent[j].kind = "dirty"
          /\ sent[j].zero = 0
    /\ \E k, l \in 1 .. Len(r_writes) :
          /\ k # l
          /\ IsTail(r_writes[k].dev, r_writes[k].sector)
          /\ IsTail(r_writes[l].dev, r_writes[l].sector)

\* the frames the encoder put on the stream, in order
TransmittedSeq == SelectSeq(sent, LAMBDA e : ~e.elided)

\* C10: frame round-trip.  The k-th write of the receiver is the k-th frame
\* of the encoder: the same device, the same sector, the flags of the header,
\* the sector count that fits the device, and the bytes of the buffer that
\* was encoded, all zero when the frame had ZERO_BLOCK, whatever frames came
\* before; the receiver never fails and decodes every frame it has read.
C10_FrameRoundTrip ==
    /\ r_state = "running"
    /\ Len(r_writes) <= Len(TransmittedSeq)
    /\ rpos > Len(stream) => Len(r_writes) = Len(TransmittedSeq)
    /\ \A k \in 1 .. Len(r_writes) :
          LET e == TransmittedSeq[k]
              wr == r_writes[k]
          IN  /\ wr.dev = e.dev
              /\ wr.sector = e.sector
              /\ wr.flags = BLK_MIG_FLAG_DEVICE_BLOCK + e.zero * BLK_MIG_FLAG_ZERO_BLOCK
              /\ wr.nr_sectors = Min(BDRV_SECTORS_PER_DIRTY_CHUNK,
                                     DevSectors[e.dev] - e.sector)
              /\ wr.ret = 0
              /\ wr.buf = e.buf
              /\ e.zero = 1 => wr.buf = ZeroBuf

\* the receiver decoded a ZERO_BLOCK frame straight after a frame with
\* payload, in the same call of block_load: its scratch buffer held that
\* payload
C10_Witness ==
    \E k \in 2 .. Len(r_writes) :
        /\ BitAnd(r_writes[k].flags, BLK_MIG_FLAG_ZERO_BLOCK) # 0
        /\ r_writes[k - 1].buf # ZeroBuf
        /\ TransmittedSeq[k].pos = TransmittedSeq[k - 1].pos + 2
               + stream[TransmittedSeq[k - 1].pos + 1].v
               + BDRV_SECTORS_PER_DIRTY_CHUNK

\* the PROGRESS headers on the stream, as the receiver tells them apart, and
\* the percentages they carry, in stream order
IsProgressWord(u) ==
    /\ u.n = 8
    /\ BitAnd(u.v, BLK_MIG_FLAG_DEVICE_BLOCK) = 0
    /\ BitAnd(u.v, BLK_MIG_FLAG_PROGRESS) # 0
ProgressWords == SelectSeq(stream, IsProgressWord)

\* C11: progress monotonicity.  Every PROGRESS value on the stream lies in
\* [0, 100] and no PROGRESS value is smaller than one written before it.
C11_ProgressMonotone ==
    \A words \in {ProgressWords} :
        /\ \A i \in 1 .. Len(words) : LoadAddr(words[i].v) \in 0 .. 100
        /\ \A i \in 1 .. Len(words) - 1 :
              LoadAddr(words[i].v) <= LoadAddr(words[i + 1].v)

\* with a shared base, the bulk phase went from one device to the next and
\* wrote three growing percentages
C11_Witness ==
    /\ shared_base = 1
    /\ Len(ProgressWords) >= 3
    /\ LoadAddr(ProgressWords[1].v) < LoadAddr(ProgressWords[Len(ProgressWords)].v)
    /\ \E d \in Devices : bmds[d].bulk_completed = 1

\* C12: backpressure cap.  Whatever window the transport reports, when the
\* submission loop of iterate has submitted a read, (submitted + read_done)
\* chunks fit the window when the loop is left.  (The sum never falls inside
\* the loop, so the bound then held after every submission.)
C12_BackpressureCap ==
    pc = "iterate"
        => \A rate_limit \in Windows :
           \A l \in IterateLoop(blk_mig_reset_dirty_cursor(World), 0, rate_limit) :
               l.w.nseq > nseq
                  => (l.w.submitted + l.w.read_done) * BLOCK_SIZE <= rate_limit

\* what cleanup leaves: no read in flight, no dirty tracking, no device, an
\* empty PendingQueue
CleanedUp ==
    /\ inflight = {}
    /\ \A d \in Devices : ~tracking[d]
    /\ bmds_list = <<>>
    /\ blk_list = <<>>

C14_Activation ==
    /\ \A w \in {World}, blk \in {0, 1}, shared \in {0, 1}, sparse \in {0, 1} :
          block_is_active(block_set_params(w, blk, shared, sparse))
             <=> (blk = 1 \/ shared = 1 \/ sparse = 1)
    /\ (pc # "init" /\ (shared_base = 1 \/ sparse_enable = 1))
          => block_is_active(World)

\* set_params was called with shared = 1 and sparse = 0, and the capability
\* is on
C14_Witness ==
    /\ pc = "params"
    /\ shared_base = 1
    /\ sparse_enable = 0
    /\ block_is_active(World)

\* C15: query consistency.  In every reachable state each registered
\* device's completed_sectors is at most its total_sectors, so
\* bytes_transferred() <= bytes_total() and bytes_remaining() is the
\* non-negative difference, and active() is true exactly when the device list
\* is non-empty; and no step of a session lowers a registered device's
\* completed_sectors.
C15_QueryConsistency ==
    /\ [](/\ \A d \in SeqToSet(bmds_list) :
                /\ bmds[d].completed_sectors >= 0
                /\ bmds[d].completed_sectors <= bmds[d].total_sectors
          /\ blk_mig_bytes_transferred(World) <= blk_mig_bytes_total(World)
          /\ blk_mig_bytes_remaining(World) >= 0
          /\ blk_mig_bytes_remaining(World)
                = blk_mig_bytes_total(World) - blk_mig_bytes_transferred(World)
          /\ (blk_mig_active(World) <=> Len(bmds_list) > 0))
    /\ [][\A d \in SeqToSet(bmds_list) \cap SeqToSet(bmds_list') :
             bmds'[d].completed_sectors >= bmds[d].completed_sectors]_vars

\* a session under way whose second device's count stands at a sector that is
\* not a chunk boundary, the first device's count having moved before it
C15_Witness ==
    /\ blk_mig_active(World)
    /\ bmds[1].completed_sectors > 0
    /\ bmds[2].completed_sectors = 1
    /\ bmds[2].total_sectors = 2
    /\ blk_mig_bytes_transferred(World) < blk_mig_bytes_total(World)

\* C16: a registered device whose bulk_completed flag is set has
\* completed_sectors = total_sectors and its bulk cursor at total_sectors; so
\* once the bulk phase is finished on all devices bytes_transferred() equals
\* bytes_total().
C16_BulkCompletedMeansAllCounted ==
    /\ \A d \in SeqToSet(bmds_list) :
          bmds[d].bulk_completed = 1
             => /\ bmds[d].completed_sectors = bmds[d].total_sectors
                /\ bmds[d].cur_sector = bmds[d].total_sectors
    /\ (bmds_list # <<>> /\ bulk_completed = 1)
          => blk_mig_bytes_transferred(World) = blk_mig_bytes_total(World)

\* C17: in-flight bitmap invariant.  For every registered device, the
\* in-flight bit of a chunk is set if and only if an async read of that chunk,
\* submitted by the bulk step or by the dirty step, has not yet completed.
C17_InFlightBitmap ==
    \A d \in SeqToSet(bmds_list) :
        \A chunk \in 0 .. Chunk(bmds[d].total_sectors) :
            chunk \in bmds[d].aio_bitmap
               <=> \E b \in inflight : b.bmds = d /\ Chunk(b.sector) = chunk

\* the sectors at which the dirty step of outcome o started a copy: the read
\* it submitted, or the chunk it read and sent synchronously
CopiedAt(o, d) ==
    {b.sector : b \in {x \in o.w.inflight : x.bmds = d /\ x.seq = nseq}}
        \cup {o.w.sent[i].sector :
                 i \in {j \in 1 .. Len(o.w.sent) :
                           o.w.sent[j].dev = d /\ o.w.sent[j].seq = nseq}}

\* C18: when the dirty step of a device finds a dirty chunk and copies it,
\* asynchronously or synchronously, then on return the chunk's dirty bit is
\* reset and the device's dirty cursor is past the chunk.  Taken in the
\* states where the bulk phase of every registered device is over, which is
\* where the hooks run the dirty step.
C18_DirtyStepAdvances ==
    (\A d \in SeqToSet(bmds_list) : bmds[d].bulk_completed = 1)
        => \A d \in SeqToSet(bmds_list), is_async \in {0, 1} :
           \A o \in mig_save_device_dirty(World, d, is_async) :
           \A sector \in CopiedAt(o, d) :
               /\ ~bdrv_get_dirty(o.w, d, sector)
               /\ o.w.bmds[d].cur_dirty >= sector + BDRV_SECTORS_PER_DIRTY_CHUNK

\* the reads that outcome o submitted, the step having started in this state
Submitted(o) == {b \in o.w.inflight : b.seq >= nseq}

\* C19: phase ordering.  A bulk step submits at most one chunk, a bulk read
\* of the first device in list order whose bulk_completed is 0; the engine's
\* bulk_completed flag implies the flag of every registered device; and a
\* dirty-phase read submitted by iterate exists only when every registered
\* device's flag is set.
C19_PhaseOrdering ==
    /\ (pc = "iterate" /\ bulk_completed = 0)
          => \A o \in blk_mig_save_bulked_block(World) :
                /\ Cardinality(Submitted(o)) <= 1
                /\ \A b \in Submitted(o) :
                      /\ b.kind = "bulk"
                      /\ \E i \in 1 .. Len(bmds_list) :
                            /\ bmds_list[i] = b.bmds
                            /\ bmds[b.bmds].bulk_completed = 0
                            /\ \A j \in 1 .. i - 1 :
                                  bmds[bmds_list[j]].bulk_completed = 1
    /\ bulk_completed = 1
          => \A d \in SeqToSet(bmds_list) : bmds[d].bulk_completed = 1
    /\ \A b \in inflight \cup SeqToSet(blk_list) :
          b.kind = "dirty"
             => \A d \in SeqToSet(bmds_list) : bmds[d].bulk_completed = 1

\* an iterate submitted the bulk read of the second device, set the engine's
\* flag and then submitted a dirty-phase read; both reads are in flight
C19_Witness ==
    /\ Len(bmds_list) = 2
    /\ bulk_completed = 1
    /\ \E b \in inflight : b.kind = "dirty"
    /\ \E b \in inflight : b.kind = "bulk" /\ b.bmds = 2

\* the number of PendingReads that outcome o of a flush encoded
Encoded(o) == Len(o.w.sent) - Len(sent)

\* C20: flush_pending.  Every flush encodes a prefix of the PendingQueue, in
\* queue order, after what the stream already holds, and leaves the rest of
\* the queue; read_done goes down and transferred goes up by the number of
\* PendingReads sent; the stream grows unless every PendingRead sent was a
\* zero chunk left out by the sparse option; a flush that encodes nothing
\* (the transport was over its limit at entry, or the head's read had failed)
\* leaves queue, counters and stream as they were; and the transport being
\* over its limit at entry is an outcome of every flush.
C20_FlushPending ==
    \A w \in {World} : \A flushed \in {flush_blks(w)} :
    /\ Out(w, 0) \in flushed
    /\ \A o \in flushed : \A n \in {Encoded(o)} :
          /\ n \in 0 .. Len(blk_list)
          /\ SubSeq(o.w.sent, 1, Len(sent)) = sent
          /\ \A i \in 1 .. n :
                /\ o.w.sent[Len(sent) + i].seq = blk_list[i].seq
                /\ o.w.sent[Len(sent) + i].dev = blk_list[i].bmds
                /\ o.w.sent[Len(sent) + i].sector = blk_list[i].sector
                /\ o.w.sent[Len(sent) + i].pos > Len(stream)
                /\ i > 1 => o.w.sent[Len(sent) + i].pos >= o.w.sent[Len(sent) + i - 1].pos
          /\ o.w.blk_list = SubSeq(blk_list, n + 1, Len(blk_list))
          /\ o.w.read_done = read_done - n
          /\ o.w.transferred = transferred + n
          /\ SubSeq(o.w.stream, 1, Len(stream)) = stream
          /\ o.w.stream = stream
                <=> \A i \in 1 .. n : o.w.sent[Len(sent) + i].elided
          /\ n = 0 => o.w = w

\* two reads completed in turn wait in the queue behind one already sent
C20_Witness ==
    /\ pc = "iterate"
    /\ Len(blk_list) >= 2
    /\ blk_list[1].seq < blk_list[2].seq
    /\ transferred >= 1
    /\ Len(sent) >= 1

\* ------------------------------------------ sessions that run to complete
\* Block migration is on without the sparse option.  Between two calls of
\* the driver the guest writes a batch of requests, one to each writable
\* device, runs of adjacent sectors that may span two chunks, while the
\* migration iterates and after the last iterate, until the driver stops it
\* and calls complete.  No cancel, and the receiver is left out.
\* the requests of a batch: <<device, first sector, last sector>>
WriteRuns == {<<1, 1, 2>>, <<2, 0, 1>>}

\* the sectors of device d that a batch writes
Written(d) == UNION {t[2] .. t[3] : t \in {r \in WriteRuns : r[1] = d}}

SetParamsBlk ==
    /\ pc = "init"
    /\ \E shared \in {0, 1} : SetWorld(block_set_params(World, 1, shared, 0))
    /\ pc' = "params"
    /\ UNCHANGED <<ret, iters, writes, rvars>>

\* the guest writes a batch of requests: every sector written takes a value
\* no sector held before, every chunk written to is marked dirty, and the
\* write of each sector lands before or after each read in flight that
\* covers it
GuestWriteRuns ==
    /\ pc \in {"iterate", "converged"}
    /\ writes < MaxWrites
    /\ LET v == writes + 2
           Overlaps == {p \in inflight \X UNION {SectorsOf(d) : d \in Devices} :
                           /\ p[2] \in Written(p[1].bmds)
                           /\ p[2] >= p[1].sector
                           /\ p[2] < p[1].sector + p[1].nr_sectors}
       IN  \E seen \in SUBSET Overlaps :
              /\ content' = [d \in Devices |->
                                [s \in DOMAIN content[d] |->
                                    IF s \in Written(d) THEN v ELSE content[d][s]]]
              /\ alloc' = [d \in Devices |-> alloc[d] \cup Written(d)]
              /\ dirty' = [d \in Devices |->
                              IF tracking[d]
                              THEN dirty[d] \cup {Chunk(s) : s \in Written(d)}
                              ELSE dirty[d]]
              /\ inflight' =
                    {[b EXCEPT !.buf =
                         [i \in 1 .. BDRV_SECTORS_PER_DIRTY_CHUNK |->
                             IF <<b, b.sector + i - 1>> \in seen
                             THEN v ELSE b.buf[i]]] : b \in inflight}
    /\ writes' = writes + 1
    /\ UNCHANGED <<blk_enable, shared_base, sparse_enable, bmds_list, blk_list,
                   submitted, read_done, transferred, total_sector_sum,
                   prev_progress, bulk_completed, total_time, reads, bmds,
                   tracking, in_use, stream, sent, freed_unsent, nseq, errs,
                   nodirty_break>>
    /\ UNCHANGED <<pc, ret, iters, rvars>>

NextPaused ==
    \/ SetParamsBlk
    \/ Setup
    \/ Iterate
    \/ Complete
    \/ ReadCb
    \/ GuestWriteRuns

SpecPaused == Init /\ [][NextPaused]_vars

\* the chunks marked dirty on the registered devices, as <<device, chunk>>
DirtyChunks ==
    UNION {{<<d, c>> : c \in dirty[d]} : d \in SeqToSet(bmds_list)}

\* the synchronous loop of complete with its calls of the dirty pass counted
RECURSIVE CompleteLoopSteps(_, _)
CompleteLoopSteps(w, n) ==
    UNION { IF o.ret = 0 THEN CompleteLoopSteps(o.w, n + 1)
            ELSE {[w |-> o.w, ret |-> o.ret, n |-> n + 1]}
            : o \in blk_mig_save_dirty_block(w, 0) }

\* the encoder calls of world w after the first `from` that are for chunk p
SentFor(w, from, p) ==
    {i \in from + 1 .. Len(w.sent) :
        w.sent[i].dev = p[1] /\ Chunk(w.sent[i].sector) = p[2]}

\* at the entry of complete (guest stopped, no read in flight), whatever the
\* first flush sent: the dirty loop ends, after one dirty pass per dirty chunk
\* and a last one; if no read failed it ends with 1, no dirty bit is left and
\* every chunk that was dirty was read as it is now and encoded once, and
\* nothing else was encoded
CompleteLoopDrainsDirty ==
    (pc = "converged" /\ submitted = 0 /\ NoReadError)
        => \A f \in flush_blks(World) :
              f.ret = 0 =>
                 \A ends \in {CompleteLoopSteps(blk_mig_reset_dirty_cursor(f.w), 0)} :
                    /\ ends # {}
                    /\ {Out(l.w, l.ret) : l \in ends}
                          = CompleteLoop(blk_mig_reset_dirty_cursor(f.w))
                    /\ \A l \in ends :
                          /\ l.n <= Cardinality(DirtyChunks) + 1
                          /\ l.w.errs = 0 =>
                                /\ l.ret = 1
                                /\ l.n = Cardinality(DirtyChunks) + 1
                                /\ \A d \in SeqToSet(bmds_list) : l.w.dirty[d] = {}
                                /\ Len(l.w.sent) = Len(f.w.sent) + Cardinality(DirtyChunks)
                                /\ \A p \in DirtyChunks :
                                   \E i \in SentFor(l.w, Len(f.w.sent), p) :
                                      /\ SentFor(l.w, Len(f.w.sent), p) = {i}
                                      /\ ~l.w.sent[i].elided
                                      /\ \A s \in Covered(l.w.sent[i]) :
                                            l.w.sent[i].buf[s - l.w.sent[i].sector + 1]
                                               = content[p[1]][s]

\* a call of complete in which no read failed sent every chunk that was
\* dirty once, read by the loop itself
CompleteSendsDirtyOnce ==
    (pc = "converged" /\ pc' = "completed" /\ NoReadError /\ errs' = 0)
        => \A p \in DirtyChunks :
              Cardinality({i \in Len(sent) + 1 .. Len(sent') :
                              /\ sent'[i].seq >= nseq
                              /\ sent'[i].dev = p[1]
                              /\ Chunk(sent'[i].sector) = p[2]}) = 1

\* C21: with the guest stopped, no read in flight at entry and reads
\* succeeding, the synchronous dirty loop of complete terminates after
\* finitely many dirty steps, and then no dirty bit is set and every chunk
\* that was dirty on a registered device has been read and encoded once.
C21_CompleteDrainsDirty ==
    /\ []CompleteLoopDrainsDirty
    /\ [][CompleteSendsDirtyOnce]_vars

\* complete has run without a read error and sent two chunks it read itself
C21_Witness ==
    /\ pc = "completed"
    /\ NoReadError
    /\ Len(sent) >= transferred + 2
    /\ \E i, j \in 1 .. Len(sent) :
          /\ i < j /\ j = Len(sent)
          /\ sent[i].kind = "dirty" /\ sent[j].kind = "dirty"
          /\ ~SameChunk(sent[i], sent[j])
          /\ sent[i].seq >= nseq - 2

\* every read in flight belongs to a registered device, so the completion
\* callback of a read never runs against a DeviceCursor that was dropped; and
\* after cancel nothing is in flight, submitted is 0, the device list and the
\* PendingQueue are empty, and no device is tracked or marked in use
NoReadOutlivesItsDevice ==
    /\ \A b \in inflight : b.bmds \in SeqToSet(bmds_list)
    /\ pc = "cancelled"
          => /\ CleanedUp
             /\ submitted = 0
             /\ \A d \in Devices : in_use[d] = 0 /\ bmds[d] = NoBmds

\* a call of cancel ran the callback of every read that was in flight, which
\* put it on the PendingQueue that cleanup then freed, and released every
\* device that was registered
CancelDrainsFirst ==
    (pc # "cancelled" /\ pc' = "cancelled")
        => /\ reads' = reads + Cardinality(inflight)
           /\ submitted' = submitted - Cardinality(inflight)
           /\ {b.seq : b \in inflight} \subseteq freed_unsent'
           /\ \A d \in SeqToSet(bmds_list) : ~tracking'[d] /\ in_use'[d] = 0

\* C22: cancel safety.  Cancel, at any point and with any number of reads in
\* flight, drains them all before it drops a DeviceCursor, so no completion
\* callback runs against a dropped DeviceCursor; after it submitted is 0,
\* dirty tracking is off and the in-use marker cleared on every device that
\* was registered, and the device list and the PendingQueue are empty.
C22_CancelSafety ==
    /\ []NoReadOutlivesItsDevice
    /\ [][CancelDrainsFirst]_vars

\* cancel ran on a session that had submitted two reads and sent nothing
C22_Witness ==
    /\ pc = "cancelled"
    /\ Cardinality(freed_unsent) >= 2
    /\ reads >= 2
    /\ sent = <<>>
    /\ submitted = 0
    /\ CleanedUp

\* ---------------------------------------------------------------------
\* A session whose bandwidth window can hold several chunks
\* ---------------------------------------------------------------------

\* the windows the transport hands to iterate: one chunk and a half, and
\* three chunks
WideWindows == {BLOCK_SIZE + BDRV_SECTOR_SIZE, 3 * BLOCK_SIZE}

IterateWide ==
    /\ pc = "iterate"
    /\ iters < MaxIter
    /\ \E rate_limit \in WideWindows :
       \E o \in block_save_iterate(World, rate_limit) :
          /\ SetWorld(o.w)
          /\ ret' = o.ret
          /\ pc' = AfterHook(o.ret)
    /\ iters' = iters + 1
    /\ UNCHANGED <<writes, rvars>>

NextWide ==
    \/ SetParamsBlk
    \/ Setup
    \/ IterateWide
    \/ Complete
    \/ ReadCb
    \/ GuestWriteRuns

SpecWide == Init /\ [][NextWide]_vars

\* C23: whenever the convergence test computes the read throughput (bulk
\* phase finished, remaining dirty bytes nonzero) a read has completed and
\* the cumulative read time is nonzero, so the assertion total_time != 0 of
\* compute_read_bwidth never fails, also when iterate ends with all its reads
\* still in flight.
C23_ReadBandwidthDefined ==
    \/ pc # "aborted"
    \/ (reads > 0 /\ total_time # 0)

====
